---- MODULE Spec2Model ----
(***************************************************************************)
(* Model of "flask SELFLEARN/app.py": a Flask application with two routes, *)
(* GET /api/tasks (list_tasks) and POST /api/tasks (create_task), served   *)
(* by concurrent worker threads.  Everything below line 33 of the file is  *)
(* prose inside string literals and registers nothing.                     *)
(*                                                                         *)
(* JSON and Python values are tagged records: [kind |-> "str", s |-> ..],  *)
(* [kind |-> "num", n |-> ..], [kind |-> "bool", b |-> ..],                *)
(* [kind |-> "arr", items |-> <<..>>], [kind |-> "obj", members |-> f],    *)
(* JSON null is [kind |-> "null"] and Python None is [kind |-> "None"].    *)
(***************************************************************************)
EXTENDS Integers, Sequences, FiniteSets, TLC

VARIABLES
    json_415,  \* installed Flask: get_json() raises 415 on a non-JSON mimetype (Flask >= 2.1) or returns None
    pc,        \* pc[th]: position of worker thread th
    req,       \* req[th]: the request bound to the thread's request context
    data,      \* data[th]: local variable data of create_task
    title,     \* title[th]: local variable title of create_task
    resp,      \* resp[th]: the response the thread produced
    created    \* history: number of 201 responses produced so far (saturates at MaxCreated)

vars == <<json_415, pc, req, data, title, resp, created>>

\* Worker threads of the server started by app.run (threaded by default).
Threads == {"t1", "t2"}

\* Cap of the history counter created.
MaxCreated == 2

-----------------------------------------------------------------------------
\* Values

JNull == [kind |-> "null"]
PyNone == [kind |-> "None"]
JBool(b) == [kind |-> "bool", b |-> b]
JNum(n) == [kind |-> "num", n |-> n]
JStr(s) == [kind |-> "str", s |-> s]
JArr(items) == [kind |-> "arr", items |-> items]
JObj(members) == [kind |-> "obj", members |-> members]

\* A request without a body, and a body that is not well-formed JSON.
NoBody == [kind |-> "absent"]
Malformed == [kind |-> "malformed"]

\* Response bodies that are not JSON documents.
HtmlError == [kind |-> "html"]
EmptyBody == [kind |-> "empty"]

NoReq == [kind |-> "none"]
NoResp == [kind |-> "none"]

\* The test "is not None" in place of truthiness.
Truthy_isNotNone(v) == v.kind # "None"

\* Python truthiness, as used by "if data" and "if not title".
Truthy(v) ==
    CASE v.kind = "None" -> FALSE
      [] v.kind = "null" -> FALSE
      [] v.kind = "bool" -> v.b
      [] v.kind = "num" -> v.n # 0
      [] v.kind = "str" -> v.s # ""
      [] v.kind = "arr" -> Len(v.items) # 0
      [] v.kind = "obj" -> DOMAIN v.members # {}
      [] OTHER -> FALSE

\* json.loads: JSON document to Python value (null becomes None).
RECURSIVE loads(_)
loads(v) ==
    CASE v.kind = "null" -> PyNone
      [] v.kind = "arr" -> JArr([i \in DOMAIN v.items |-> loads(v.items[i])])
      [] v.kind = "obj" -> JObj([k \in DOMAIN v.members |-> loads(v.members[k])])
      [] OTHER -> v

\* jsonify / json.dumps: Python value to JSON document (None becomes null).
RECURSIVE jsonify(_)
jsonify(v) ==
    CASE v.kind = "None" -> JNull
      [] v.kind = "arr" -> JArr([i \in DOMAIN v.items |-> jsonify(v.items[i])])
      [] v.kind = "obj" -> JObj([k \in DOMAIN v.members |-> jsonify(v.members[k])])
      [] OTHER -> v

\* A Task whose title is a fixed literal and not the given one.
Task_noecho(i, t) == JObj(("id" :> JNum(i)) @@ ("title" :> JStr("Task 1")))

\* The dict literal {"id": i, "title": t}.
Task(i, t) == JObj(("id" :> JNum(i)) @@ ("title" :> t))

-----------------------------------------------------------------------------
\* Requests

JsonMime == "application/json"
TextMime == "text/plain"

\* Values a client may send as the title member.
TitleValues ==
    { JStr(""), JStr(" "), JStr("Buy milk"), JStr("Call mom"),
      JNull, JNum(0), JBool(FALSE), JArr(<<>>), JObj(<<>>),
      JNum(7), JBool(TRUE), JArr(<<JNum(1)>>), JObj("a" :> JNum(1)) }

\* JSON documents a client may send as the body.
JsonBodies ==
    { JNull, JNum(0), JBool(FALSE), JStr(""), JArr(<<>>), JObj(<<>>),
      JNum(5), JBool(TRUE), JStr("x"), JArr(<<JNum(1)>>),
      JObj("note" :> JStr("x")) }
    \cup { JObj("title" :> t) : t \in TitleValues }

Bodies == JsonBodies \cup {NoBody, Malformed}

Methods == {"GET", "HEAD", "POST", "PUT", "DELETE", "OPTIONS"}
Paths == {"/api/tasks", "/api/tasks/", "/api/task", "/"}

Request(m, p, ct, b) == [method |-> m, path |-> p, mime |-> ct, body |-> b]

\* The requests clients send.
Requests ==
    { Request("POST", "/api/tasks", JsonMime, b) : b \in Bodies }
    \cup { Request("POST", "/api/tasks", TextMime, b) :
             b \in {NoBody, JObj("title" :> JStr("Buy milk"))} }
    \cup { Request("GET", "/api/tasks", JsonMime, b) :
             b \in {Malformed, JObj("title" :> JStr("Buy milk"))} }
    \cup { Request(m, p, TextMime, NoBody) : m \in Methods, p \in Paths }

-----------------------------------------------------------------------------
\* Routing

\* add_url_rule: Werkzeug adds HEAD to a rule that allows GET, Flask adds
\* OPTIONS (provide_automatic_options).
AddUrlRule(rule, methods, endpoint) ==
    [rule |-> rule,
     methods |-> methods \cup (IF "GET" \in methods THEN {"HEAD"} ELSE {}) \cup {"OPTIONS"},
     endpoint |-> endpoint]

\* Routes where list_tasks is also registered for the root path.
url_map_root ==
    { AddUrlRule("/api/tasks", {"GET"}, "list_tasks"),
      AddUrlRule("/", {"GET"}, "list_tasks"),
      AddUrlRule("/api/tasks", {"POST"}, "create_task") }

\* The routes registered at import time.
url_map ==
    { AddUrlRule("/api/tasks", {"GET"}, "list_tasks"),
      AddUrlRule("/api/tasks", {"POST"}, "create_task") }

\* A response; a HEAD request is answered without a body.  handler is the
\* view function that ran ("none" when the router answered), raised the
\* line of app.py whose evaluation raised the exception (0: none).
Response(r, status, body, description, handler, raised) ==
    [status |-> status,
     body |-> IF r.method = "HEAD" THEN EmptyBody ELSE body,
     description |-> description,
     handler |-> handler,
     raised |-> raised]

\* The handlers of the notes (400, 404 and 500), had they been registered.
error_handler_spec_notes == {400, 404, 500}

\* The status codes with a handler registered by app.errorhandler at import
\* time: none, the decorators of the file are text inside a string literal.
error_handler_spec == {}

\* What the handlers written in the notes would return.
JsonErrorHandler(status, description) ==
    CASE status = 400 ->
             JObj(("error" :> JStr("bad_request")) @@ ("message" :> JStr(description)))
      [] status = 404 ->
             JObj(("error" :> JStr("not_found")) @@ ("message" :> JStr("Resource not found")))
      [] OTHER ->
             JObj(("error" :> JStr("server_error")) @@ ("message" :> JStr("Something went wrong")))

\* The response for an HTTPException (abort or a framework error): what the
\* registered handler of its code returns, by default an HTML page; an
\* uncaught exception of another type becomes a 500.
ErrorResponse(r, status, description, handler, raised) ==
    Response(r, status,
             IF status \in error_handler_spec
             THEN JsonErrorHandler(status, description)
             ELSE HtmlError,
             description, handler, raised)

-----------------------------------------------------------------------------
\* Init and actions

Init ==
    /\ json_415 \in BOOLEAN
    /\ pc = [th \in Threads |-> "idle"]
    /\ req = [th \in Threads |-> NoReq]
    /\ data = [th \in Threads |-> PyNone]
    /\ title = [th \in Threads |-> PyNone]
    /\ resp = [th \in Threads |-> NoResp]
    /\ created = 0

\* A worker thread accepts a request.
Receive(th, r) ==
    /\ pc[th] = "idle"
    /\ req' = [req EXCEPT ![th] = r]
    /\ pc' = [pc EXCEPT ![th] = "dispatch"]
    /\ UNCHANGED <<json_415, data, title, resp, created>>

\* URL matching and dispatch to the view function.
Dispatch(th) ==
    /\ pc[th] = "dispatch"
    /\ LET r == req[th]
           matching == { u \in url_map : u.rule = r.path }
           allowed == { u \in matching : r.method \in u.methods }
       IN  IF matching = {}
           THEN /\ resp' = [resp EXCEPT ![th] = ErrorResponse(r, 404, "Not Found", "none", 0)]
                /\ pc' = [pc EXCEPT ![th] = "done"]
           ELSE IF allowed = {}
           THEN /\ resp' = [resp EXCEPT ![th] = ErrorResponse(r, 405, "Method Not Allowed", "none", 0)]
                /\ pc' = [pc EXCEPT ![th] = "done"]
           ELSE IF r.method = "OPTIONS"
           THEN /\ resp' = [resp EXCEPT ![th] = Response(r, 200, EmptyBody, "", "none", 0)]
                /\ pc' = [pc EXCEPT ![th] = "done"]
           ELSE /\ resp' = resp
                /\ pc' = [pc EXCEPT ![th] = (CHOOSE u \in allowed : TRUE).endpoint]
    /\ UNCHANGED <<json_415, req, data, title, created>>

\* The list literal of list_tasks.
TASKS == JArr(<<Task(1, JStr("Task 1"))>>)

\* list_tasks, with a store that create_task would have filled.
ListTasks_store(th) ==
    /\ pc[th] = "list_tasks"
    /\ resp' = [resp EXCEPT ![th] =
           Response(req[th], 200,
                    jsonify(JArr(TASKS.items \o [i \in 1..created |-> Task(2, JStr("Buy milk"))])),
                    "", "list_tasks", 0)]
    /\ pc' = [pc EXCEPT ![th] = "done"]
    /\ UNCHANGED <<json_415, req, data, title, created>>

\* list_tasks that parses the request body before answering.
ListTasks_parse(th) ==
    /\ pc[th] = "list_tasks"
    /\ resp' = [resp EXCEPT ![th] =
           IF req[th].mime = JsonMime /\ req[th].body \in {NoBody, Malformed}
           THEN ErrorResponse(req[th], 400, "Failed to decode JSON object", "list_tasks", 23)
           ELSE Response(req[th], 200, jsonify(TASKS), "", "list_tasks", 0)]
    /\ pc' = [pc EXCEPT ![th] = "done"]
    /\ UNCHANGED <<json_415, req, data, title, created>>

\* list_tasks: return jsonify([{"id": 1, "title": "Task 1"}])
ListTasks(th) ==
    /\ pc[th] = "list_tasks"
    /\ resp' = [resp EXCEPT ![th] = Response(req[th], 200, jsonify(TASKS), "", "list_tasks", 0)]
    /\ pc' = [pc EXCEPT ![th] = "done"]
    /\ UNCHANGED <<json_415, req, data, title, created>>

\* create_task is entered.
CreateTask(th) ==
    /\ pc[th] = "create_task"
    /\ pc' = [pc EXCEPT ![th] = "get_json"]
    /\ data' = [data EXCEPT ![th] = PyNone]
    /\ title' = [title EXCEPT ![th] = PyNone]
    /\ UNCHANGED <<json_415, req, resp, created>>

\* data = request.get_json()
GetJson(th) ==
    /\ pc[th] = "get_json"
    /\ LET r == req[th]
       IN  IF r.mime # JsonMime
           THEN IF json_415
                THEN /\ resp' = [resp EXCEPT ![th] =
                            ErrorResponse(r, 415, "Unsupported Media Type", "create_task", 28)]
                     /\ pc' = [pc EXCEPT ![th] = "done"]
                     /\ data' = data
                ELSE /\ data' = [data EXCEPT ![th] = PyNone]
                     /\ pc' = [pc EXCEPT ![th] = "get_title"]
                     /\ resp' = resp
           ELSE IF r.body \in {NoBody, Malformed}
           THEN /\ resp' = [resp EXCEPT ![th] =
                       ErrorResponse(r, 400, "Failed to decode JSON object", "create_task", 28)]
                /\ pc' = [pc EXCEPT ![th] = "done"]
                /\ data' = data
           ELSE /\ data' = [data EXCEPT ![th] = loads(r.body)]
                /\ pc' = [pc EXCEPT ![th] = "get_title"]
                /\ resp' = resp
    /\ UNCHANGED <<json_415, req, title, created>>

\* dict.get(key): the member, or None.
DictGet(d, key) == IF key \in DOMAIN d.members THEN d.members[key] ELSE PyNone

\* title = data.get("title"), without the guard "if data else None".
GetTitle_noguard(th) ==
    /\ pc[th] = "get_title"
    /\ LET d == data[th]
       IN  IF d.kind = "obj"
           THEN /\ title' = [title EXCEPT ![th] = DictGet(d, "title")]
                /\ pc' = [pc EXCEPT ![th] = "check_title"]
                /\ resp' = resp
           ELSE /\ resp' = [resp EXCEPT ![th] =
                       ErrorResponse(req[th], 500, "AttributeError", "create_task", 29)]
                /\ pc' = [pc EXCEPT ![th] = "done"]
                /\ title' = title
    /\ UNCHANGED <<json_415, req, data, created>>

\* title = data.get("title") if data else None
GetTitle(th) ==
    /\ pc[th] = "get_title"
    /\ LET d == data[th]
       IN  IF ~Truthy(d)
           THEN /\ title' = [title EXCEPT ![th] = PyNone]
                /\ pc' = [pc EXCEPT ![th] = "check_title"]
                /\ resp' = resp
           ELSE IF d.kind = "obj"
           THEN /\ title' = [title EXCEPT ![th] = DictGet(d, "title")]
                /\ pc' = [pc EXCEPT ![th] = "check_title"]
                /\ resp' = resp
           ELSE \* AttributeError: list, str, int and bool have no attribute get
                /\ resp' = [resp EXCEPT ![th] =
                       ErrorResponse(req[th], 500, "AttributeError", "create_task", 29)]
                /\ pc' = [pc EXCEPT ![th] = "done"]
                /\ title' = title
    /\ UNCHANGED <<json_415, req, data, created>>

Bump(n) == IF n < MaxCreated THEN n + 1 ELSE n

\* create_task whose identifier is derived from the number of tasks created.
CheckTitle_counter(th) ==
    /\ pc[th] = "check_title"
    /\ IF ~Truthy(title[th])
       THEN /\ resp' = [resp EXCEPT ![th] =
                   ErrorResponse(req[th], 400, "title required", "create_task", 31)]
            /\ created' = created
       ELSE /\ resp' = [resp EXCEPT ![th] =
                   Response(req[th], 201, jsonify(Task(2 + created, title[th])), "", "create_task", 0)]
            /\ created' = Bump(created)
    /\ pc' = [pc EXCEPT ![th] = "done"]
    /\ UNCHANGED <<json_415, req, data, title>>

\* create_task without the title check.
CheckTitle_nocheck(th) ==
    /\ pc[th] = "check_title"
    /\ resp' = [resp EXCEPT ![th] =
           Response(req[th], 201, jsonify(Task(2, title[th])), "", "create_task", 0)]
    /\ created' = Bump(created)
    /\ pc' = [pc EXCEPT ![th] = "done"]
    /\ UNCHANGED <<json_415, req, data, title>>

\* create_task that accepts only a string title with visible characters.
CheckTitle_validate(th) ==
    /\ pc[th] = "check_title"
    /\ IF ~(title[th].kind = "str" /\ title[th].s \notin {"", " "})
       THEN /\ resp' = [resp EXCEPT ![th] =
                   ErrorResponse(req[th], 400, "title required", "create_task", 31)]
            /\ created' = created
       ELSE /\ resp' = [resp EXCEPT ![th] =
                   Response(req[th], 201, jsonify(Task(2, title[th])), "", "create_task", 0)]
            /\ created' = Bump(created)
    /\ pc' = [pc EXCEPT ![th] = "done"]
    /\ UNCHANGED <<json_415, req, data, title>>

\* if not title: abort(400, description="title required")
\* return jsonify({"id": 2, "title": title}), 201
CheckTitle(th) ==
    /\ pc[th] = "check_title"
    /\ IF ~Truthy(title[th])
       THEN /\ resp' = [resp EXCEPT ![th] =
                   ErrorResponse(req[th], 400, "title required", "create_task", 31)]
            /\ created' = created
       ELSE /\ resp' = [resp EXCEPT ![th] =
                   Response(req[th], 201, jsonify(Task(2, title[th])), "", "create_task", 0)]
            /\ created' = Bump(created)
    /\ pc' = [pc EXCEPT ![th] = "done"]
    /\ UNCHANGED <<json_415, req, data, title>>

\* The response is sent; the view's frame and the request context are gone.
Send(th) ==
    /\ pc[th] = "done"
    /\ pc' = [pc EXCEPT ![th] = "idle"]
    /\ req' = [req EXCEPT ![th] = NoReq]
    /\ resp' = [resp EXCEPT ![th] = NoResp]
    /\ data' = [data EXCEPT ![th] = PyNone]
    /\ title' = [title EXCEPT ![th] = PyNone]
    /\ UNCHANGED <<json_415, created>>

Next ==
    \E th \in Threads :
        \/ \E r \in Requests : Receive(th, r)
        \/ Dispatch(th)
        \/ ListTasks(th)
        \/ CreateTask(th)
        \/ GetJson(th)
        \/ GetTitle(th)
        \/ CheckTitle(th)
        \/ Send(th)

Spec == Init /\ [][Next]_vars

-----------------------------------------------------------------------------
\* Helpers for the properties

Done(th) == pc[th] = "done"
IsGetTasks(r) == r.method = "GET" /\ r.path = "/api/tasks"
IsPostTasks(r) == r.method = "POST" /\ r.path = "/api/tasks"
ClientError(st) == st \in 400..499
HasTitle(b) == b.kind = "obj" /\ "title" \in DOMAIN b.members

\* The view function thread th is in or has run ("none": neither).
View(th) ==
    CASE pc[th] = "list_tasks" -> "list_tasks"
      [] pc[th] \in {"create_task", "get_json", "get_title", "check_title"} -> "create_task"
      [] pc[th] = "done" -> resp[th].handler
      [] OTHER -> "none"

TypeOK ==
    /\ json_415 \in BOOLEAN
    /\ created \in 0..MaxCreated
    /\ \A th \in Threads : req[th] \in Requests \cup {NoReq}

-----------------------------------------------------------------------------
\* C1: every GET /api/tasks, whatever it carries and whatever was served
\* before, is answered 200 with the one-element array [{id: 1, title: "Task 1"}].
C1_ListIsFixed ==
    \A th \in Threads :
        (Done(th) /\ IsGetTasks(req[th])) =>
            /\ resp[th].status = 200
            /\ resp[th].body = JArr(<<JObj(("id" :> JNum(1)) @@ ("title" :> JStr("Task 1")))>>)

\* A GET carrying a malformed JSON body answered 200 after tasks were created.
C1_Witness ==
    \E th \in Threads :
        /\ Done(th) /\ IsGetTasks(req[th]) /\ req[th].body = Malformed
        /\ created > 0
        /\ resp[th].status = 200

\* C2: a POST /api/tasks whose JSON body is an object with a non-empty string
\* title t is answered 201 with {id: 2, title: t}.
C2_CreateEchoesTitle ==
    \A th \in Threads :
        (/\ Done(th) /\ IsPostTasks(req[th]) /\ req[th].mime = JsonMime
         /\ HasTitle(req[th].body)
         /\ req[th].body.members["title"].kind = "str"
         /\ req[th].body.members["title"].s # "") =>
            /\ resp[th].status = 201
            /\ resp[th].body =
                   JObj(("id" :> JNum(2)) @@ ("title" :> JStr(req[th].body.members["title"].s)))

\* {"title": "Buy milk"} answered 201 {"id": 2, "title": "Buy milk"}.
C2_Witness ==
    \E th \in Threads :
        /\ Done(th) /\ IsPostTasks(req[th]) /\ req[th].mime = JsonMime
        /\ req[th].body = JObj("title" :> JStr("Buy milk"))
        /\ resp[th].status = 201
        /\ resp[th].body.members["title"] = JStr("Buy milk")

\* C3: a POST /api/tasks with an object without a title member, or without
\* a body, is answered with a 4xx status and no Task.
C3_MissingTitleRejected ==
    \A th \in Threads :
        (/\ Done(th) /\ IsPostTasks(req[th])
         /\ \/ req[th].body = NoBody
            \/ (req[th].body.kind = "obj" /\ ~HasTitle(req[th].body))) =>
            /\ ClientError(resp[th].status)
            /\ resp[th].body = HtmlError

\* One thread rejected the body {}, the other a request without a body.
C3_Witness ==
    \E a, b \in Threads :
        /\ Done(a) /\ IsPostTasks(req[a]) /\ req[a].body = JObj(<<>>)
        /\ req[a].mime = JsonMime /\ resp[a].status = 400
        /\ Done(b) /\ IsPostTasks(req[b]) /\ req[b].body = NoBody
        /\ ClientError(resp[b].status)

\* C4: a POST /api/tasks with the body {"title": ""} is answered with a 4xx
\* status, never 201.
C4_EmptyTitleRejected ==
    \A th \in Threads :
        (/\ Done(th) /\ IsPostTasks(req[th])
         /\ req[th].body = JObj("title" :> JStr(""))) =>
            /\ ClientError(resp[th].status)
            /\ resp[th].status # 201

\* {"title": ""} was rejected by the title check.
C4_Witness ==
    \E th \in Threads :
        /\ Done(th) /\ IsPostTasks(req[th])
        /\ req[th].body = JObj("title" :> JStr(""))
        /\ resp[th].status = 400 /\ resp[th].raised = 31

\* C5: every 201 response of create_task carries id 2, however many tasks
\* were created before.
C5_IdIsAlwaysTwo ==
    \A th \in Threads :
        (Done(th) /\ resp[th].status = 201) =>
            resp[th].body.members["id"] = JNum(2)

\* Two creations with different titles, both answered with id 2.
C5_Witness ==
    \E a, b \in Threads :
        /\ a # b /\ Done(a) /\ Done(b)
        /\ resp[a].status = 201 /\ resp[b].status = 201
        /\ resp[a].body.members["title"] # resp[b].body.members["title"]
        /\ resp[a].body.members["id"] = JNum(2) /\ resp[b].body.members["id"] = JNum(2)
        /\ created >= 2

\* C6: create_task changes nothing list_tasks returns: a step of create_task
\* changes no other thread's request, locals or response, and whatever
\* list_tasks returns holds one task, with id 1, and no created task.
C6_CreateChangesNothing ==
    [][ /\ \A th \in Threads :
              (pc[th] \in {"create_task", "get_json", "get_title", "check_title"}
               /\ pc'[th] # pc[th]) =>
                  \A o \in Threads \ {th} :
                      /\ req'[o] = req[o] /\ resp'[o] = resp[o]
                      /\ data'[o] = data[o] /\ title'[o] = title[o]
        /\ \A th \in Threads :
              (pc'[th] = "done" /\ resp'[th].handler = "list_tasks"
               /\ req'[th].method = "GET") =>
                  /\ Len(resp'[th].body.items) = 1
                  /\ \A i \in DOMAIN resp'[th].body.items :
                         resp'[th].body.items[i].members["id"] = JNum(1)
      ]_vars

\* A GET answered while another thread holds a 201 response.
C6_Witness ==
    \E a, b \in Threads :
        /\ Done(a) /\ resp[a].handler = "list_tasks" /\ req[a].method = "GET"
        /\ Len(resp[a].body.items) = 1
        /\ Done(b) /\ resp[b].status = 201
        /\ created >= 1

\* C7: two threads that were handed the same request hold the same response,
\* whatever was served before and however their steps interleave.
C7_SameRequestSameResponse ==
    \A a, b \in Threads :
        (Done(a) /\ Done(b) /\ req[a] = req[b]) => resp[a] = resp[b]

\* The same creation request answered twice, after an earlier creation.
C7_Witness ==
    \E a, b \in Threads :
        /\ a # b /\ Done(a) /\ Done(b) /\ req[a] = req[b]
        /\ IsPostTasks(req[a]) /\ resp[a].status = 201 /\ resp[b].status = 201
        /\ created >= 2

\* C8: every error that arises in create_task's own code (not inside
\* get_json) is the 400 with the description "title required".
C8_OnlyTitleRequired ==
    \A th \in Threads :
        (/\ Done(th) /\ resp[th].handler = "create_task"
         /\ resp[th].status >= 400 /\ resp[th].raised # 28) =>
            /\ resp[th].status = 400
            /\ resp[th].description = "title required"

\* C9 as stated: a view function is reached only by GET or POST on /api/tasks.
C9_OnlyGetAndPost ==
    \A th \in Threads :
        View(th) # "none" =>
            /\ req[th].path = "/api/tasks"
            /\ req[th].method \in {"GET", "POST"}

\* C9 amended: list_tasks is reached only by GET or HEAD on /api/tasks,
\* create_task only by POST on /api/tasks; every other request is answered
\* by the router (404, 405, or the automatic OPTIONS response).
C9_RoutesAmended ==
    \A th \in Threads :
        /\ View(th) = "list_tasks" =>
               (req[th].path = "/api/tasks" /\ req[th].method \in {"GET", "HEAD"})
        /\ View(th) = "create_task" =>
               (req[th].path = "/api/tasks" /\ req[th].method = "POST")
        /\ (Done(th) /\ View(th) = "none") =>
               \/ resp[th].status = 404 /\ req[th].path # "/api/tasks"
               \/ resp[th].status = 405 /\ req[th].method \in {"PUT", "DELETE"}
               \/ resp[th].status = 200 /\ req[th].method = "OPTIONS"

\* A PUT on /api/tasks answered 405 and a GET on another path answered 404,
\* neither by a view function.
C9_Witness ==
    \E a, b \in Threads :
        /\ Done(a) /\ req[a].path = "/api/tasks" /\ req[a].method = "PUT"
        /\ resp[a].status = 405 /\ resp[a].handler = "none"
        /\ Done(b) /\ req[b].path = "/api/tasks/" /\ req[b].method = "GET"
        /\ resp[b].status = 404 /\ resp[b].handler = "none"

\* C10: create_task answers 201 exactly when the parsed body is truthy and
\* has a truthy title; otherwise it answers with an error; a request whose
\* title is missing or empty is never answered 201.
C10_CreatedIffTruthyTitle ==
    \A th \in Threads :
        (Done(th) /\ resp[th].handler = "create_task") =>
            /\ resp[th].status = 201 <=>
                   /\ Truthy(data[th])
                   /\ HasTitle(data[th])
                   /\ Truthy(data[th].members["title"])
            /\ \/ resp[th].status = 201 /\ HasTitle(resp[th].body)
               \/ resp[th].status >= 400 /\ resp[th].body = HtmlError
            /\ (\/ ~HasTitle(req[th].body)
                \/ req[th].body.members["title"] = JStr("")) => resp[th].status # 201

\* One request was answered 201 and another was rejected by the title check.
C10_Witness ==
    \E a, b \in Threads :
        /\ Done(a) /\ resp[a].handler = "create_task" /\ resp[a].status = 201
        /\ Truthy(data[a])
        /\ Done(b) /\ resp[b].handler = "create_task" /\ resp[b].status = 400
        /\ resp[b].raised = 31 /\ Truthy(data[b])

\* C11: every POST /api/tasks whose body parses as JSON, objects and
\* non-objects alike, is answered 201 or with a 4xx status, never a 5xx.
C11_NoServerFault ==
    \A th \in Threads :
        (/\ Done(th) /\ IsPostTasks(req[th]) /\ req[th].mime = JsonMime
         /\ req[th].body \in JsonBodies) =>
            \/ resp[th].status = 201
            \/ ClientError(resp[th].status)

\* The falsy values of JSON.
FalsyJson == {JNull, JNum(0), JBool(FALSE), JStr(""), JArr(<<>>), JObj(<<>>)}

\* C12: a POST /api/tasks whose title is present and falsy (null, 0, false,
\* "", [], {}), or whose JSON body is itself falsy, is rejected with the 400
\* "title required" of the title check.
C12_FalsyRejected ==
    \A th \in Threads :
        (/\ Done(th) /\ IsPostTasks(req[th]) /\ req[th].mime = JsonMime
         /\ \/ req[th].body \in FalsyJson
            \/ (HasTitle(req[th].body) /\ req[th].body.members["title"] \in FalsyJson)) =>
            /\ resp[th].status = 400
            /\ resp[th].description = "title required"
            /\ resp[th].raised = 31

\* The title 0 was rejected on one thread and the body [] on the other.
C12_Witness ==
    \E a, b \in Threads :
        /\ Done(a) /\ IsPostTasks(req[a]) /\ req[a].mime = JsonMime
        /\ req[a].body = JObj("title" :> JNum(0))
        /\ resp[a].status = 400 /\ resp[a].raised = 31
        /\ Done(b) /\ IsPostTasks(req[b]) /\ req[b].mime = JsonMime
        /\ req[b].body = JArr(<<>>)
        /\ resp[b].status = 400 /\ resp[b].raised = 31

\* Truthy titles that are not strings with visible characters.
OddTitles == {JNum(7), JBool(TRUE), JArr(<<JNum(1)>>), JObj("a" :> JNum(1)), JStr(" ")}

\* C13: a POST /api/tasks whose title is a non-zero number, true, a non-empty
\* array or object, or a whitespace-only string is answered 201 with that
\* same value as the title of the returned Task.
C13_TruthyTitleAccepted ==
    \A th \in Threads :
        (/\ Done(th) /\ IsPostTasks(req[th]) /\ req[th].mime = JsonMime
         /\ HasTitle(req[th].body) /\ req[th].body.members["title"] \in OddTitles) =>
            /\ resp[th].status = 201
            /\ resp[th].body.kind = "obj"
            /\ DOMAIN resp[th].body.members = {"id", "title"}
            /\ resp[th].body.members["id"] = JNum(2)
            /\ resp[th].body.members["title"] = req[th].body.members["title"]

\* The title [1] was echoed on one thread and the title " " on the other.
C13_Witness ==
    \E a, b \in Threads :
        /\ Done(a) /\ IsPostTasks(req[a]) /\ req[a].body = JObj("title" :> JArr(<<JNum(1)>>))
        /\ resp[a].status = 201 /\ resp[a].body.members["title"] = JArr(<<JNum(1)>>)
        /\ Done(b) /\ IsPostTasks(req[b]) /\ req[b].body = JObj("title" :> JStr(" "))
        /\ resp[b].status = 201 /\ resp[b].body.members["title"] = JStr(" ")

\* C14: no error handler is registered, so every error response, the 400 of
\* create_task included, is the default page of the framework and never the
\* JSON body {error: "bad_request", message: "title required"} of the notes.
C14_DefaultErrorResponse ==
    \A th \in Threads :
        (Done(th) /\ resp[th].status >= 400) =>
            /\ resp[th].body \in {HtmlError, EmptyBody}
            /\ resp[th].body # JObj(("error" :> JStr("bad_request"))
                                    @@ ("message" :> JStr("title required")))

\* The 400 of create_task answered with the default page, while the other
\* thread holds a 404 of the router, also the default page.
C14_Witness ==
    \E a, b \in Threads :
        /\ Done(a) /\ resp[a].handler = "create_task" /\ resp[a].raised = 31
        /\ resp[a].status = 400 /\ resp[a].description = "title required"
        /\ resp[a].body = HtmlError
        /\ Done(b) /\ resp[b].status = 404 /\ resp[b].body = HtmlError

====
